---- MODULE Spec2Model ----
(***************************************************************************)
(* Midx, the indexing and persistence layer of tmupp: the SQLite catalog   *)
(* (t_music_dirs, t_artists, t_albums, t_tracks, t_tracks_metadata), the   *)
(* directory scanner and the tag extractor of deps/Midx/src/midx.cpp.      *)
(*                                                                         *)
(* Representation.                                                         *)
(*  - std::optional<T> and a nullable SQL column are a sequence of length  *)
(*    at most one: None is std::nullopt / NULL, Some(v) holds v.           *)
(*  - A path is the sequence of its components; the file name of a regular *)
(*    file is split at its last dot into stem and extension, so            *)
(*    <<"a","s","a",".flac">> is /a/s/a.flac.                              *)
(*  - A call returns [db, ret]: the catalog it leaves behind and either    *)
(*    Ok(value) or Throw(exception) when an exception leaves the function. *)
(*    SQLite runs in autocommit mode (no transaction is opened anywhere),  *)
(*    so every statement executed before a throw stays applied.            *)
(***************************************************************************)
EXTENDS Integers, Sequences, FiniteSets, TLC

VARIABLES
  t_music_dirs,       \* rows [id, path]
  t_artists,          \* rows [id, name]
  t_albums,           \* rows [id, name, artist_id]
  t_tracks,           \* rows [id, file_path, parent_dir_id]
  t_tracks_metadata,  \* rows [track_id, title, track_num, artist_id, album_id]
  sqlite_sequence,    \* AUTOINCREMENT high-water mark of each table
  art_files,          \* album ids for which a file data_dir/<id> exists
  art_writes,         \* how many times the file data_dir/<id> was written
  fs_dirs,            \* canonical paths of the directories on disk
  fs_files,           \* canonical paths of the regular files on disk
  tags,               \* what TagLib reads from each regular file
  calls               \* the insert calls under way, one per caller

vars == <<t_music_dirs, t_artists, t_albums, t_tracks, t_tracks_metadata,
          sqlite_sequence, art_files, art_writes, fs_dirs, fs_files, tags,
          calls>>

----------------------------------------------------------------------------
(* Bounds of the model *)

\* AUTOINCREMENT ids are issued up to MaxSeq in every table.
MaxSeq == 2

----------------------------------------------------------------------------
(* std::optional, results *)

None == << >>
Some(v) == <<v>>
HasValue(o) == Len(o) > 0
Value(o) == o[1]

\* F applied to the value of v, which is evaluated once.
Let(v, F(_)) == CHOOSE y \in { F(x) : x \in { v } } : TRUE

Ok(v) == [kind |-> "ok", val |-> v]
Throw(e) == [kind |-> "throw", val |-> e]
Threw(r) == r.ret.kind = "throw"

\* SQL "a = b": NULL compares equal to nothing, not even to NULL.
SqlEq(a, b) == HasValue(a) /\ HasValue(b) /\ Value(a) = Value(b)

----------------------------------------------------------------------------
(* The filesystem and the tags TagLib reads *)

\* The tree on disk: /a holds n.txt and the directory /a/s, which holds
\* a.flac and b.mp3; /la is a symbolic link to /a/s; /x does not exist.
\* /a/s/c.mp3 is a file that is not there at first and may be copied in.
AllDirs == { <<"a">>, <<"a", "s">> }
NewFile == <<"a", "s", "c", ".mp3">>
TopFile == <<"a", "t", ".mp3">>
AllFiles == { <<"a", "n", ".txt">>,
              <<"a", "s", "a", ".flac">>, <<"a", "s", "b", ".mp3">>, NewFile, TopFile }
LinkName == <<"la">>
LinkTarget == <<"a", "s">>

\* The paths a caller passes where a directory is expected.
PathArgs == AllDirs \cup { LinkName, <<"x">>, <<"a", "n", ".txt">> }

\* The paths a caller passes where a regular file is expected: the files of
\* the tree, a.flac through the link, a directory and a file that is not
\* there.
FileArgs == AllFiles \cup { <<"la", "a", ".flac">>, <<"a", "s">>, <<"x", "a", ".flac">> }

IsPrefix(p, q) == Len(p) <= Len(q) /\ SubSeq(q, 1, Len(p)) = p

\* fs::canonical: absolute path with symbolic links resolved (the caller
\* decides what happens when the path does not exist, where it throws).
canonical(p) ==
  IF IsPrefix(LinkName, p)
  THEN LinkTarget \o SubSeq(p, Len(LinkName) + 1, Len(p))
  ELSE p

exists(p) == canonical(p) \in fs_dirs \cup fs_files
is_directory(p) == canonical(p) \in fs_dirs
is_regular_file(p) == canonical(p) \in fs_files

\* A tag set as TagLib::Tag presents it; an empty string is an unset text
\* field and 0 an unset track number. comment, genre and year are unset in
\* every file of the model. pic: the file embeds a cover picture.
Tag(title, artist, album, track, pic) ==
  [title |-> title, artist |-> artist, album |-> album, track |-> track, pic |-> pic]

Unreadable == None
NoTags == Some(Tag("", "", "", 0, FALSE))
FullTags == Some(Tag("Song", "X", "Y", 3, TRUE))
BareTags == Some(Tag("", "X", "Y", 0, FALSE))
NoAlbumTags == Some(Tag("Song", "X", "", 3, FALSE))
NoArtistTags == Some(Tag("Song", "", "Y", 0, TRUE))
TagSets == { Unreadable, NoTags, FullTags, BareTags, NoAlbumTags, NoArtistTags }

\* TagLib::Tag::isEmpty
isEmpty(t) == t.title = "" /\ t.artist = "" /\ t.album = "" /\ t.track = 0

ArtistNames == { "X" }
AlbumNames == { "Y" }

----------------------------------------------------------------------------
(* The catalog as a value, so that calls compose *)

DB == [dirs |-> t_music_dirs, artists |-> t_artists, albums |-> t_albums,
       tracks |-> t_tracks, meta |-> t_tracks_metadata,
       seq |-> sqlite_sequence, art |-> art_files, writes |-> art_writes]

Ret(db, r) == [db |-> db, ret |-> r]

\* The id a table without AUTOINCREMENT gives its next row: one more than
\* the largest id the table holds now.
NextRowId(db, tbl) ==
  IF db[tbl] = {}
  THEN 1
  ELSE (CHOOSE i \in { r.id : r \in db[tbl] } : \A r \in db[tbl] : r.id <= i) + 1

\* The id AUTOINCREMENT gives the next row of table tbl: one more than the
\* largest id the table ever held.
NextId(db, tbl) == db.seq[tbl] + 1

----------------------------------------------------------------------------
(* Validity predicates and natural-key lookups *)

is_valid_music_dir_id(db, id) == \E r \in db.dirs : r.id = id
is_valid_artist_id(db, id) == \E r \in db.artists : r.id = id
is_valid_album_id(db, id) == \E r \in db.albums : r.id = id
is_valid_track_id(db, id) == \E r \in db.tracks : r.id = id

\* The id of one of the rows (SELECT ... executeStep reads the first row).
FirstId(rows) == IF rows = {} THEN None ELSE Some((CHOOSE r \in rows : TRUE).id)

get_music_dir_id(db, path) == FirstId({ r \in db.dirs : r.path = path })
get_artist_id(db, name) == FirstId({ r \in db.artists : r.name = name })
get_album_id(db, name, artist_id) ==
  FirstId({ r \in db.albums : r.name = name /\ SqlEq(r.artist_id, artist_id) })
get_track_id(db, file_path) == FirstId({ r \in db.tracks : r.file_path = file_path })

\* The columns of t_tracks_metadata.
MetadataColumns == { "track_id", "title", "track_num", "artist_id", "album_id" }

\* SELECT track_id, title, track_num, artist_id, album_id
\*   FROM t_tracks_metadata WHERE <column> = ?
\* A statement that names a column the table does not have fails to compile
\* (SQLite::Statement's constructor throws "no such column").
SelectMetadataWhere(db, column, v) ==
  IF column \notin MetadataColumns
  THEN Ret(db, Throw("SQLite::Exception"))
  ELSE LET rows == { r \in db.meta : r[column] = v }
       IN Ret(db, Ok(IF rows = {} THEN None ELSE Some(CHOOSE r \in rows : TRUE)))

\* get_track_metadata reading the column track_id.
get_track_metadata_by_track_id(db, id) == SelectMetadataWhere(db, "track_id", id)

get_track_metadata(db, id) == SelectMetadataWhere(db, "id", id)

----------------------------------------------------------------------------
(* The SQL statements. An INSERT into an AUTOINCREMENT table takes the next *)
(* id before its constraints are examined: a row that OR IGNORE drops has   *)
(* still moved sqlite_sequence, a statement that fails has not.             *)

Bump(db, tbl) == [db EXCEPT !.seq[tbl] = NextId(db, tbl)]

\* INSERT OR IGNORE INTO t_music_dirs (id, path) VALUES (NULL, ?)
InsertMusicDirRow(db, path) ==
  IF \E r \in db.dirs : r.path = path
  THEN Bump(db, "dirs")
  ELSE [Bump(db, "dirs") EXCEPT !.dirs = @ \cup { [id |-> NextId(db, "dirs"), path |-> path] }]

\* INSERT OR IGNORE INTO t_artists (id, name) VALUES (NULL, ?)
InsertArtistRow(db, name) ==
  IF \E r \in db.artists : r.name = name
  THEN Bump(db, "artists")
  ELSE [Bump(db, "artists") EXCEPT
          !.artists = @ \cup { [id |-> NextId(db, "artists"), name |-> name] }]

\* INSERT OR IGNORE INTO t_albums (id, name, artist_id) VALUES (NULL, ?, ?)
\* OR IGNORE covers UNIQUE (name, artist_id), in which a NULL artist_id is
\* distinct from every other NULL; a foreign key that fails is an error.
InsertAlbumRow(db, name, artist_id) ==
  IF HasValue(artist_id) /\ ~is_valid_artist_id(db, Value(artist_id))
  THEN Ret(db, Throw("SQLite::Exception"))
  ELSE IF \E r \in db.albums : r.name = name /\ SqlEq(r.artist_id, artist_id)
  THEN Ret(Bump(db, "albums"), Ok(None))
  ELSE Ret([Bump(db, "albums") EXCEPT
              !.albums = @ \cup { [id |-> NextId(db, "albums"), name |-> name,
                                   artist_id |-> artist_id] }],
           Ok(None))

\* INSERT OR IGNORE INTO t_tracks (id, file_path, parent_dir_id) VALUES (NULL, ?, ?)
\* OR IGNORE drops a row whose file_path is taken before the foreign key of
\* the row is looked at; the foreign key of a row that is stored must hold.
InsertTrackRow(db, file_path, parent_dir_id) ==
  IF \E r \in db.tracks : r.file_path = file_path
  THEN Ret(Bump(db, "tracks"), Ok(None))
  ELSE IF ~is_valid_music_dir_id(db, parent_dir_id)
  THEN Ret(db, Throw("SQLite::Exception"))
  ELSE Ret([Bump(db, "tracks") EXCEPT
              !.tracks = @ \cup { [id |-> NextId(db, "tracks"), file_path |-> file_path,
                                   parent_dir_id |-> parent_dir_id] }],
           Ok(None))

----------------------------------------------------------------------------
(* Insert-or-get of directories, artists and albums *)

\* insert_music_dir looking up and storing the path as given, without
\* fs::canonical.
insert_music_dir_as_given(db, path) ==
  IF ~exists(path) \/ ~is_directory(path)
  THEN Ret(db, Ok(None))
  ELSE IF HasValue(get_music_dir_id(db, path))
  THEN Ret(db, Ok(get_music_dir_id(db, path)))
  ELSE Let(InsertMusicDirRow(db, path),
           LAMBDA db2 : Ret(db2, Ok(get_music_dir_id(db2, path))))

insert_music_dir(db, path) ==
  IF ~exists(path) \/ ~is_directory(path)
  THEN Ret(db, Ok(None))
  ELSE LET abs_path == canonical(path)
           id == get_music_dir_id(db, abs_path)
       IN IF HasValue(id)
          THEN Ret(db, Ok(id))
          ELSE Let(InsertMusicDirRow(db, abs_path),
                   LAMBDA db2 : Ret(db2, Ok(get_music_dir_id(db2, abs_path))))

insert_artist(db, name) ==
  LET id == get_artist_id(db, name)
  IN IF HasValue(id)
     THEN Ret(db, Ok(id))
     ELSE Let(InsertArtistRow(db, name),
              LAMBDA db2 : Ret(db2, Ok(get_artist_id(db2, name))))

\* insert_album without the test of the artist id.
insert_album_unchecked(db, name, artist_id) ==
  LET id == get_album_id(db, name, artist_id)
  IN IF HasValue(id)
     THEN Ret(db, Ok(id))
     ELSE Let(InsertAlbumRow(db, name, artist_id),
              LAMBDA ins : IF Threw(ins)
                           THEN ins
                           ELSE Ret(ins.db, Ok(get_album_id(ins.db, name, artist_id))))

insert_album(db, name, artist_id) ==
  IF HasValue(artist_id) /\ ~is_valid_artist_id(db, Value(artist_id))
  THEN Ret(db, Ok(None))
  ELSE LET id == get_album_id(db, name, artist_id)
       IN IF HasValue(id)
          THEN Ret(db, Ok(id))
          ELSE Let(InsertAlbumRow(db, name, artist_id),
                   LAMBDA ins : IF Threw(ins)
                                THEN ins
                                ELSE Ret(ins.db, Ok(get_album_id(ins.db, name, artist_id))))

----------------------------------------------------------------------------
(* Tag extraction and track insertion *)

is_supported_file_type(path) == path[Len(path)] \in { ".flac", ".mp3" }

\* fs::path{file_path}.filename().replace_extension("")
FilenameStem(file_path) == file_path[Len(file_path) - 1]

TrackMetadata(track_id, title, track_number, artist_id, album_id) ==
  [track_id |-> track_id, title |-> title, track_num |-> track_number,
   artist_id |-> artist_id, album_id |-> album_id]

\* INSERT OR REPLACE INTO t_tracks_metadata (...) VALUES (?, ?, ?, ?, ?)
\* An empty title is bound as NULL, which NOT NULL rejects.
insert_metadata(db, tm) ==
  IF \/ tm.title = ""
     \/ ~is_valid_track_id(db, tm.track_id)
     \/ HasValue(tm.artist_id) /\ ~is_valid_artist_id(db, Value(tm.artist_id))
     \/ HasValue(tm.album_id) /\ ~is_valid_album_id(db, Value(tm.album_id))
  THEN Ret(db, Throw("SQLite::Exception"))
  ELSE Ret([db EXCEPT !.meta = { r \in @ : r.track_id # tm.track_id } \cup { tm }],
           Ok(Some(tm.track_id)))

\* std::ofstream album_art_file{data_dir/<album_id>} and the bytes of the
\* picture written to it.
WriteArtFile(db, album_id) ==
  [db EXCEPT !.art = @ \cup { album_id }, !.writes[album_id] = @ + 1]

\* The end of load_metadata, once artist_id is known and al is what
\* insert_album left (or the catalog as it was, when the album field is
\* empty). The art file name is formatted from album_id.value() before
\* album_id is tested, and value() of an empty optional throws
\* std::bad_optional_access.
LoadAlbumArt(al, track_id, title, trk_num, artist_id, pic) ==
  IF Threw(al)
  THEN al
  ELSE LET album_id == al.ret.val
       IN IF ~HasValue(album_id)
          THEN Ret(al.db, Throw("std::bad_optional_access"))
          ELSE Ret(IF Value(album_id) \notin al.db.art /\ pic
                   THEN WriteArtFile(al.db, Value(album_id))
                   ELSE al.db,
                   Ok(Some(TrackMetadata(track_id, title, trk_num, artist_id, album_id))))

\* The part of load_metadata after the tag set t was found non-empty.
LoadFromTag(db, track_id, file_path, t) ==
  LET title == IF t.title # "" THEN t.title ELSE FilenameStem(file_path)
      trk_num == IF t.track = 0 THEN None ELSE Some(t.track)
  IN Let(IF t.artist # "" THEN insert_artist(db, t.artist) ELSE Ret(db, Ok(None)),
         LAMBDA ar :
           Let(IF t.album # "" THEN insert_album(ar.db, t.album, ar.ret.val)
               ELSE Ret(ar.db, Ok(None)),
               LAMBDA al : LoadAlbumArt(al, track_id, title, trk_num, ar.ret.val, t.pic)))

load_metadata(db, track_id, file_path) ==
  IF ~is_valid_track_id(db, track_id)
  THEN Ret(db, Ok(None))
  ELSE LET fref == tags[canonical(file_path)]
       IN IF ~HasValue(fref) \/ isEmpty(Value(fref))
          THEN Ret(db, Ok(None))
          ELSE LoadFromTag(db, track_id, file_path, Value(fref))

\* The end of insert_track without the call of insert_metadata.
StoreNoMetadata(tm, trk_id) == IF Threw(tm) THEN tm ELSE Ret(tm.db, Ok(trk_id))

\* The end of insert_track: tm is what load_metadata left for track trk_id.
StoreMetadata(tm, trk_id) ==
  IF Threw(tm)
  THEN tm
  ELSE IF HasValue(tm.ret.val)
  THEN Let(insert_metadata(tm.db, Value(tm.ret.val)),
           LAMBDA im : IF Threw(im) THEN im ELSE Ret(im.db, Ok(trk_id)))
  ELSE Ret(tm.db, Ok(trk_id))

insert_track(db, file_path, parent_dir_id) ==
  IF ~HasValue(parent_dir_id) \/ ~is_valid_music_dir_id(db, Value(parent_dir_id))
  THEN Ret(db, Ok(None))
  ELSE IF ~exists(file_path)
  THEN Ret(db, Throw("filesystem_error"))
  ELSE LET abs_path == canonical(file_path)
           id == get_track_id(db, abs_path)
       IN IF ~is_regular_file(abs_path)
          THEN Ret(db, Ok(None))
          ELSE IF HasValue(id)
          THEN Ret(db, Ok(id))
          ELSE Let(InsertTrackRow(db, abs_path, Value(parent_dir_id)),
                   LAMBDA ins :
                     IF Threw(ins)
                     THEN ins
                     ELSE Let(get_track_id(ins.db, abs_path),
                              LAMBDA trk_id :
                                Let(load_metadata(ins.db, Value(trk_id), file_path),
                                    LAMBDA tm : StoreMetadata(tm, trk_id))))

----------------------------------------------------------------------------
(* Removal. foreign_keys is ON: a DELETE that would leave a referencing row *)
(* behind fails.                                                            *)

\* The tracks whose file lies below the path of the directory, whichever
\* directory owns them.
TracksBelowDir(db, dir_id) ==
  { r \in db.tracks : \E d \in db.dirs : d.id = dir_id /\ IsPrefix(d.path, r.file_path) }

TracksOfDir(db, dir_id) == { r \in db.tracks : r.parent_dir_id = dir_id }
TrackIdsOfDir(db, dir_id) == { r.id : r \in TracksOfDir(db, dir_id) }

\* DELETE FROM t_tracks WHERE id = ? executed in the place of the DELETE of
\* the metadata row, on a store that does not enforce foreign keys.
DeleteTrackRowFirst(db, track_id) ==
  Ret([db EXCEPT !.tracks = { r \in @ : r.id # track_id }], Ok(None))

\* DELETE FROM t_tracks_metadata WHERE track_id = ?
DeleteMetadataRow(db, track_id) ==
  Ret([db EXCEPT !.meta = { r \in @ : r.track_id # track_id }], Ok(None))

\* DELETE FROM t_tracks WHERE id = ?
DeleteTrackRow(db, track_id) ==
  IF \E t \in db.tracks : t.id = track_id /\ \E m \in db.meta : m.track_id = track_id
  THEN Ret(db, Throw("SQLite::Exception"))
  ELSE Ret([db EXCEPT !.tracks = { r \in @ : r.id # track_id }], Ok(None))

\* DELETE FROM t_tracks_metadata without its WHERE clause.
DeleteAllMetadata(db, dir_id) == Ret([db EXCEPT !.meta = {}], Ok(None))

\* DELETE FROM t_tracks_metadata WHERE track_id in (... tracks of the directory)
DeleteMetadataOfDir(db, dir_id) ==
  IF ~is_valid_music_dir_id(db, dir_id)
  THEN Ret(db, Ok(None))
  ELSE Ret([db EXCEPT !.meta = { r \in @ : r.track_id \notin TrackIdsOfDir(db, dir_id) }],
           Ok(None))

\* DELETE FROM t_tracks WHERE t_tracks.id IN (... tracks of the directory)
DeleteTracksOfDir(db, dir_id) ==
  IF ~is_valid_music_dir_id(db, dir_id)
  THEN Ret(db, Ok(None))
  ELSE IF \E m \in db.meta : m.track_id \in TrackIdsOfDir(db, dir_id)
  THEN Ret(db, Throw("SQLite::Exception"))
  ELSE Ret([db EXCEPT !.tracks = @ \ TracksOfDir(db, dir_id)], Ok(None))

\* DELETE FROM t_music_dirs WHERE id = ?
DeleteMusicDirRow(db, dir_id) ==
  IF TracksOfDir(db, dir_id) # {}
  THEN Ret(db, Throw("SQLite::Exception"))
  ELSE Ret([db EXCEPT !.dirs = { r \in @ : r.id # dir_id }], Ok(None))

\* A statement of the store that may also fail for a reason outside the
\* catalog (SQLITE_BUSY, SQLITE_IOERR, SQLITE_FULL): fails says whether it does.
Exec(stmt, db, fails) == IF fails THEN Ret(db, Throw("SQLite::Exception")) ELSE stmt

\* s, the result of a statement, followed by the rest of the function.
AndThen(s, Rest(_)) == Let(s, LAMBDA r : IF Threw(r) THEN r ELSE Rest(r.db))

\* The two DELETE statements of remove_track, in the order in which they
\* are executed. fault: the statement (1 or 2) at which the store reports an
\* error, 0 when it reports none.
RemoveTrackStmts(db, track_id, fault) ==
  AndThen(Exec(DeleteMetadataRow(db, track_id), db, fault = 1),
          LAMBDA db1 : AndThen(Exec(DeleteTrackRow(db1, track_id), db1, fault = 2),
                               LAMBDA db2 : Ret(db2, Ok(TRUE))))

\* remove_track with the Track row deleted alone.
remove_track_row_only(db, track_id) ==
  Ret([db EXCEPT !.tracks = { r \in @ : r.id # track_id }], Ok(TRUE))

remove_track(db, track_id) == RemoveTrackStmts(db, track_id, 0)

\* The three DELETE statements of remove_music_dir, in the order in which
\* they are executed. fault: the statement (1, 2 or 3) at which the store
\* reports an error, 0 when it reports none.
RemoveCascade(db, dir_id, fault) ==
  AndThen(Exec(DeleteMetadataOfDir(db, dir_id), db, fault = 1),
          LAMBDA db1 :
            AndThen(Exec(DeleteTracksOfDir(db1, dir_id), db1, fault = 2),
                    LAMBDA db2 :
                      AndThen(Exec(DeleteMusicDirRow(db2, dir_id), db2, fault = 3),
                              LAMBDA db3 : Ret(db3, Ok(TRUE)))))

\* remove_music_dir without the test of the path on disk.
remove_music_dir_unchecked(db, path, fault) ==
  LET abs_path == canonical(path)
      dir_id == get_music_dir_id(db, abs_path)
  IN IF ~HasValue(dir_id)
     THEN Ret(db, Ok(FALSE))
     ELSE RemoveCascade(db, Value(dir_id), fault)

remove_music_dir(db, path, fault) ==
  IF ~exists(path) \/ ~is_directory(path)
  THEN Ret(db, Ok(FALSE))
  ELSE LET abs_path == canonical(path)
           dir_id == get_music_dir_id(db, abs_path)
       IN IF ~HasValue(dir_id)
          THEN Ret(db, Ok(FALSE))
          ELSE RemoveCascade(db, Value(dir_id), fault)

----------------------------------------------------------------------------
(* Scanning *)

\* p is an entry of directory d itself (a regular file takes two components).
IsChild(d, p) ==
  /\ IsPrefix(d, p)
  /\ \/ p \in fs_dirs /\ Len(p) = Len(d) + 1
     \/ p \in fs_files /\ Len(p) = Len(d) + 2

\* fs::recursive_directory_iterator: the entries below d, depth first, each
\* directory listed in the order in which order names its entries.
RECURSIVE Walk(_, _, _)
Walk(d, todo, order) ==
  IF todo = << >>
  THEN << >>
  ELSE LET p == Head(todo)
       IN IF ~IsChild(d, p)
          THEN Walk(d, Tail(todo), order)
          ELSE IF p \in fs_dirs
          THEN <<p>> \o Walk(p, order, order) \o Walk(d, Tail(todo), order)
          ELSE <<p>> \o Walk(d, Tail(todo), order)

\* The sequences that list each member of S once.
RECURSIVE Perms(_)
Perms(S) ==
  IF S = {}
  THEN { << >> }
  ELSE UNION { { <<x>> \o p : p \in Perms(S \ { x }) } : x \in S }

\* The entries of directory d on disk that a scan does not skip: its
\* directories and its files of a supported type.
Listed(d) ==
  { p \in fs_dirs \cup fs_files :
      IsChild(d, p) /\ (p \in fs_dirs \/ is_supported_file_type(p)) }

\* The orders in which the filesystem may list the tree: the entries of /a
\* in any order and the entries of /a/s in any order (n.txt is skipped
\* wherever it comes, and is put first).
ListingOrders ==
  { << <<"a", "n", ".txt">> >> \o top \o sub :
      top \in Perms(Listed(<<"a">>)), sub \in Perms(Listed(<<"a", "s">>)) }

\* The loop of scan_directory over the entries from the i-th on.
RECURSIVE ScanEntries(_, _, _, _)
ScanEntries(db, entries, i, id) ==
  IF i > Len(entries)
  THEN Ret(db, Ok(id))
  ELSE IF entries[i] \in fs_files /\ is_supported_file_type(entries[i])
  THEN Let(insert_track(db, entries[i], id),
           LAMBDA r : IF Threw(r) THEN r ELSE ScanEntries(r.db, entries, i + 1, id))
  ELSE ScanEntries(db, entries, i + 1, id)

scan_directory(db, path, order) ==
  IF ~exists(path)
  THEN Ret(db, Throw("filesystem_error"))
  ELSE IF ~is_directory(canonical(path))
  THEN Ret(db, Ok(None))
  ELSE Let(insert_music_dir(db, canonical(path)),
           LAMBDA d : Let(Walk(canonical(path), order, order),
                          LAMBDA entries : ScanEntries(d.db, entries, 1, d.ret.val)))

\* get_all_music_dirs: SELECT id, path FROM t_music_dirs scans the table in
\* rowid order.
RECURSIVE RowsById(_)
RowsById(rows) ==
  IF rows = {}
  THEN << >>
  ELSE LET r == CHOOSE x \in rows : \A y \in rows : x.id <= y.id
       IN <<r>> \o RowsById(rows \ { r })

get_all_music_dirs(db) == RowsById(db.dirs)

\* The loop of build_music_library over the directories from the i-th on.
RECURSIVE ScanAll(_, _, _, _)
ScanAll(db, mdirs, i, order) ==
  IF i > Len(mdirs)
  THEN Ret(db, Ok(None))
  ELSE Let(scan_directory(db, mdirs[i].path, order),
           LAMBDA r : IF Threw(r) THEN r ELSE ScanAll(r.db, mdirs, i + 1, order))

build_music_library(db, order) ==
  Let(get_all_music_dirs(db), LAMBDA mdirs : ScanAll(db, mdirs, 1, order))

----------------------------------------------------------------------------
(* The state machine: one action per call of the interface. What a call    *)
(* returns is not part of the state: the properties below read it off the   *)
(* call applied to the state.                                               *)

Tables == { "dirs", "artists", "albums", "tracks" }

\* The callers that may be inside an insert operation at the same time.
Callers == { 1, 2 }

\* A caller that is inside no call.
Idle == [pc |-> "idle", op |-> "none", key |-> None, arg |-> << >>,
         parent |-> None, trk_id |-> None, artist_id |-> None, album_id |-> None,
         ret |-> Ok(None)]

\* init_database on a new store: five empty tables.
Init ==
  /\ t_music_dirs = {}
  /\ t_artists = {}
  /\ t_albums = {}
  /\ t_tracks = {}
  /\ t_tracks_metadata = {}
  /\ sqlite_sequence = [tbl \in Tables |-> 0]
  /\ art_files = {}
  /\ art_writes = [id \in 1..MaxSeq |-> 0]
  /\ fs_dirs = AllDirs
  /\ fs_files = AllFiles \ { NewFile, TopFile }
  /\ tags \in { f \in [AllFiles -> TagSets] :
                  /\ \A p \in AllFiles : ~is_supported_file_type(p) => f[p] = NoTags
                  /\ f[NewFile] = FullTags
                  /\ f[TopFile] = FullTags }
  /\ calls = [c \in Callers |-> Idle]

\* No table has issued more than MaxSeq ids.
InBounds(db) == \A tbl \in Tables : db.seq[tbl] <= MaxSeq

\* The store after the statements that left db.
Store(db) ==
  /\ InBounds(db)
  /\ t_music_dirs' = db.dirs
  /\ t_artists' = db.artists
  /\ t_albums' = db.albums
  /\ t_tracks' = db.tracks
  /\ t_tracks_metadata' = db.meta
  /\ sqlite_sequence' = db.seq
  /\ art_files' = db.art
  /\ art_writes' = db.writes
  /\ UNCHANGED <<fs_dirs, fs_files, tags>>

\* A call has run from its first statement to its last and left r.
Commit(r) == Store(r.db) /\ UNCHANGED calls

\* The ids a caller may pass: those issued so far and one that never was.
IdArgs == 1..(MaxSeq + 1)
OptIdArgs == { None } \cup { Some(i) : i \in IdArgs }

InsertMusicDir ==
  \E path \in PathArgs :
    \E r \in { insert_music_dir(DB, path) } : Commit(r)

InsertArtist ==
  \E name \in ArtistNames :
    \E r \in { insert_artist(DB, name) } : Commit(r)

InsertAlbum ==
  \E name \in AlbumNames, artist_id \in OptIdArgs :
    \E r \in { insert_album(DB, name, artist_id) } : Commit(r)

RemoveMusicDir ==
  \E path \in PathArgs :
    \E r \in { remove_music_dir(DB, path, 0) } : Commit(r)

\* remove_music_dir when the store fails at one of the three statements.
RemoveMusicDirFault ==
  \E path \in PathArgs, fault \in 1..3 :
    \E r \in { remove_music_dir(DB, path, fault) } : Commit(r)

ScanDirectory ==
  \E path \in PathArgs, order \in ListingOrders :
    \E r \in { scan_directory(DB, path, order) } : Commit(r)

BuildMusicLibrary ==
  \E order \in ListingOrders :
    \E r \in { build_music_library(DB, order) } : Commit(r)

InsertTrack ==
  \E file_path \in FileArgs, parent_dir_id \in OptIdArgs :
    \E r \in { insert_track(DB, file_path, parent_dir_id) } : Commit(r)

RemoveTrack ==
  \E track_id \in IdArgs :
    \E r \in { remove_track(DB, track_id) } : Commit(r)

\* remove_track when the store fails at one of the two statements.
RemoveTrackFault ==
  \E track_id \in IdArgs, fault \in 1..2 :
    \E r \in { RemoveTrackStmts(DB, track_id, fault) } : Commit(r)

\* What happens to the tree on disk between two calls: a music file is
\* deleted or copied (back) into its directory with the tags it has, the
\* directory /a/s is deleted with everything in it, or made again.
Catalog == <<t_music_dirs, t_artists, t_albums, t_tracks, t_tracks_metadata,
             sqlite_sequence, art_files, art_writes>>

DeleteFile ==
  \E f \in fs_files :
    /\ is_supported_file_type(f)
    /\ fs_files' = fs_files \ { f }
    /\ UNCHANGED <<Catalog, fs_dirs, tags, calls>>

CreateFile ==
  \E f \in (AllFiles \ { TopFile }) \ fs_files :
    /\ SubSeq(f, 1, Len(f) - 2) \in fs_dirs
    /\ fs_files' = fs_files \cup { f }
    /\ UNCHANGED <<Catalog, fs_dirs, tags, calls>>

\* A music file is copied into /a, next to the directory /a/s.
CreateTopFile ==
  /\ TopFile \notin fs_files
  /\ fs_files' = fs_files \cup { TopFile }
  /\ UNCHANGED <<Catalog, fs_dirs, tags, calls>>

DeleteTree ==
  \E d \in fs_dirs \ { <<"a">> } :
    /\ fs_dirs' = { q \in fs_dirs : ~IsPrefix(d, q) }
    /\ fs_files' = { q \in fs_files : ~IsPrefix(d, q) }
    /\ UNCHANGED <<Catalog, tags, calls>>

MakeDir ==
  \E d \in AllDirs \ fs_dirs :
    /\ SubSeq(d, 1, Len(d) - 1) \in fs_dirs
    /\ fs_dirs' = fs_dirs \cup { d }
    /\ UNCHANGED <<Catalog, fs_files, tags, calls>>

\* The insert operations one statement at a time, for callers that share
\* the store. A step of a caller is one SQL statement or one access to a
\* file (TagLib::FileRef, fs::exists of the art file, the write of the art
\* file) together with the tests of local values that follow it; the tests
\* of the path on disk that open insert_music_dir and insert_track go with
\* the lookup that follows them. pc names the statement the caller executes
\* next.

\* The call has returned ret (or left by the exception ret).
Done(call, ret) ==
  [Idle EXCEPT !.pc = "done", !.op = call.op, !.key = call.key, !.ret = ret]

\* The tag set of the file of an insert_track call, once fref is known to
\* hold one.
TagOf(call) == Value(tags[Value(call.key)])

\* load_metadata once album_id is set: album_id.value() for the name of the
\* art file.
AfterAlbum(call, album_id) ==
  IF ~HasValue(album_id)
  THEN Done(call, Throw("std::bad_optional_access"))
  ELSE [call EXCEPT !.pc = "art_exists", !.album_id = album_id]

\* insert_artist has returned artist_id: to its caller, or to load_metadata,
\* which goes on with the album field.
AfterArtist(call, artist_id) ==
  IF call.op = "artist"
  THEN Done(call, Ok(artist_id))
  ELSE IF TagOf(call).album = ""
  THEN AfterAlbum([call EXCEPT !.artist_id = artist_id], None)
  ELSE [call EXCEPT !.artist_id = artist_id,
                    !.pc = IF HasValue(artist_id) THEN "is_valid_artist_id"
                                                  ELSE "get_album_id"]

\* A statement that reads: the caller goes on as call.
Read(c, call) ==
  /\ calls' = [calls EXCEPT ![c] = call]
  /\ UNCHANGED <<Catalog, fs_dirs, fs_files, tags>>

\* A statement that writes and leaves r: the caller goes on as call unless
\* the statement threw.
Write(c, r, call) ==
  /\ Store(r.db)
  /\ calls' = [calls EXCEPT ![c] = IF Threw(r) THEN Done(calls[c], r.ret) ELSE call]

\* The paths given to the racing insert_music_dir and insert_track calls:
\* /a/s and the file a.flac in it, by their own path and through the link,
\* and a file that is not there.
RaceDirArgs == { <<"a", "s">>, LinkName }
RaceFileArgs == { <<"a", "s", "a", ".flac">>, <<"la", "a", ".flac">>, <<"x", "a", ".flac">> }

\* insert_music_dir up to its first get_music_dir_id.
CallInsertMusicDir(c) ==
  \E path \in RaceDirArgs :
    /\ calls[c].pc = "idle"
    /\ Read(c, LET call == [Idle EXCEPT !.op = "dir", !.arg = path]
                   id == get_music_dir_id(DB, canonical(path))
               IN IF ~exists(path) \/ ~is_directory(path)
                  THEN Done(call, Ok(None))
                  ELSE IF HasValue(id)
                  THEN Done([call EXCEPT !.key = Some(canonical(path))], Ok(id))
                  ELSE [call EXCEPT !.key = Some(canonical(path)), !.pc = "insert"])

\* insert_artist up to its first get_artist_id.
CallInsertArtist(c) ==
  \E name \in ArtistNames :
    /\ calls[c].pc = "idle"
    /\ Read(c, LET call == [Idle EXCEPT !.op = "artist", !.arg = name, !.key = Some(name)]
                   id == get_artist_id(DB, name)
               IN IF HasValue(id)
                  THEN Done(call, Ok(id))
                  ELSE [call EXCEPT !.pc = "insert_artist"])

\* insert_track up to is_valid_music_dir_id.
CallInsertTrack(c) ==
  \E file_path \in RaceFileArgs, parent_dir_id \in OptIdArgs :
    /\ calls[c].pc = "idle"
    /\ Read(c, LET call == [Idle EXCEPT !.op = "track", !.arg = file_path,
                                        !.parent = parent_dir_id]
               IN IF \/ ~HasValue(parent_dir_id)
                     \/ ~is_valid_music_dir_id(DB, Value(parent_dir_id))
                  THEN Done(call, Ok(None))
                  ELSE [call EXCEPT !.pc = "get_track_id"])

\* insert_track: fs::canonical, the tests of the file and the first
\* get_track_id.
LookupTrack(c) ==
  /\ calls[c].pc = "get_track_id"
  /\ Read(c, LET call == calls[c]
                 abs_path == canonical(call.arg)
                 id == get_track_id(DB, abs_path)
             IN IF ~exists(call.arg)
                THEN Done(call, Throw("filesystem_error"))
                ELSE IF ~is_regular_file(call.arg)
                THEN Done(call, Ok(None))
                ELSE IF HasValue(id)
                THEN Done([call EXCEPT !.key = Some(abs_path)], Ok(id))
                ELSE [call EXCEPT !.key = Some(abs_path), !.pc = "insert"])

\* stmt.exec() of the INSERT OR IGNORE of insert_music_dir and insert_track.
InsertOrIgnore(c) ==
  /\ calls[c].pc = "insert"
  /\ \E r \in { IF calls[c].op = "dir"
                 THEN Ret(InsertMusicDirRow(DB, Value(calls[c].key)), Ok(None))
                 ELSE InsertTrackRow(DB, Value(calls[c].key), Value(calls[c].parent)) } :
       Write(c, r, [calls[c] EXCEPT !.pc = "reread"])

\* The lookup after the insert: what insert_music_dir returns, and the
\* trk_id of insert_track, whose value() is the argument of load_metadata.
ReRead(c) ==
  /\ calls[c].pc = "reread"
  /\ Read(c, LET call == calls[c]
             IN IF call.op = "dir"
                THEN Done(call, Ok(get_music_dir_id(DB, Value(call.key))))
                ELSE LET trk_id == get_track_id(DB, Value(call.key))
                     IN IF ~HasValue(trk_id)
                        THEN Done(call, Throw("std::bad_optional_access"))
                        ELSE [call EXCEPT !.pc = "is_valid_track_id", !.trk_id = trk_id])

\* load_metadata: is_valid_track_id(db, track_id).
IsValidTrack(c) ==
  /\ calls[c].pc = "is_valid_track_id"
  /\ Read(c, IF ~is_valid_track_id(DB, Value(calls[c].trk_id))
             THEN Done(calls[c], Ok(calls[c].trk_id))
             ELSE [calls[c] EXCEPT !.pc = "fref"])

\* load_metadata: TagLib::FileRef fref{file_path} and the fields read from
\* its tag.
ReadTags(c) ==
  /\ calls[c].pc = "fref"
  /\ Read(c, LET call == calls[c]
                 fref == tags[canonical(call.arg)]
             IN IF ~HasValue(fref) \/ isEmpty(Value(fref))
                THEN Done(call, Ok(call.trk_id))
                ELSE IF Value(fref).artist # ""
                THEN [call EXCEPT !.pc = "get_artist_id"]
                ELSE AfterArtist(call, None))

\* insert_artist called by load_metadata: its first get_artist_id.
LookupArtist(c) ==
  /\ calls[c].pc = "get_artist_id"
  /\ Read(c, LET id == get_artist_id(DB, TagOf(calls[c]).artist)
             IN IF HasValue(id)
                THEN AfterArtist(calls[c], id)
                ELSE [calls[c] EXCEPT !.pc = "insert_artist"])

\* The name an insert_artist under way was given.
ArtistOf(call) == IF call.op = "artist" THEN call.arg ELSE TagOf(call).artist

\* insert_artist: stmt.exec() of INSERT OR IGNORE INTO t_artists.
InsertArtistStmt(c) ==
  /\ calls[c].pc = "insert_artist"
  /\ \E r \in { Ret(InsertArtistRow(DB, ArtistOf(calls[c])), Ok(None)) } :
       Write(c, r, [calls[c] EXCEPT !.pc = "reread_artist"])

\* insert_artist: return get_artist_id(db, name).
ReReadArtist(c) ==
  /\ calls[c].pc = "reread_artist"
  /\ Read(c, AfterArtist(calls[c], get_artist_id(DB, ArtistOf(calls[c]))))

\* insert_album called by load_metadata: is_valid_artist_id of an artist_id
\* that has a value.
IsValidArtist(c) ==
  /\ calls[c].pc = "is_valid_artist_id"
  /\ Read(c, IF ~is_valid_artist_id(DB, Value(calls[c].artist_id))
             THEN AfterAlbum(calls[c], None)
             ELSE [calls[c] EXCEPT !.pc = "get_album_id"])

\* insert_album: its first get_album_id.
LookupAlbum(c) ==
  /\ calls[c].pc = "get_album_id"
  /\ Read(c, LET id == get_album_id(DB, TagOf(calls[c]).album, calls[c].artist_id)
             IN IF HasValue(id)
                THEN AfterAlbum(calls[c], id)
                ELSE [calls[c] EXCEPT !.pc = "insert_album"])

\* insert_album: stmt.exec() of INSERT OR IGNORE INTO t_albums.
InsertAlbumStmt(c) ==
  /\ calls[c].pc = "insert_album"
  /\ \E r \in { InsertAlbumRow(DB, TagOf(calls[c]).album, calls[c].artist_id) } :
       Write(c, r, [calls[c] EXCEPT !.pc = "reread_album"])

\* insert_album: return get_album_id(db, name, artist_id).
ReReadAlbum(c) ==
  /\ calls[c].pc = "reread_album"
  /\ Read(c, AfterAlbum(calls[c],
                        get_album_id(DB, TagOf(calls[c]).album, calls[c].artist_id)))

\* load_metadata: fs::exists(album_art_filename).
ArtExists(c) ==
  /\ calls[c].pc = "art_exists"
  /\ Read(c, [calls[c] EXCEPT !.pc = IF Value(calls[c].album_id) \in art_files
                                     THEN "insert_metadata"
                                     ELSE "get_album_art"])

\* load_metadata: get_album_art(file_path).
ReadArt(c) ==
  /\ calls[c].pc = "get_album_art"
  /\ Read(c, [calls[c] EXCEPT !.pc = IF TagOf(calls[c]).pic
                                     THEN "write_art"
                                     ELSE "insert_metadata"])

\* load_metadata: the art file opened and written.
WriteArt(c) ==
  /\ calls[c].pc = "write_art"
  /\ \E r \in { Ret(WriteArtFile(DB, Value(calls[c].album_id)), Ok(None)) } :
       Write(c, r, [calls[c] EXCEPT !.pc = "insert_metadata"])

\* The TrackMetadata load_metadata returns to insert_track.
MetadataOf(call) ==
  LET t == TagOf(call)
  IN TrackMetadata(Value(call.trk_id),
                   IF t.title # "" THEN t.title ELSE FilenameStem(call.arg),
                   IF t.track = 0 THEN None ELSE Some(t.track),
                   call.artist_id, call.album_id)

\* insert_track: insert_metadata(db, tm.value()) and return trk_id.
InsertMetadata(c) ==
  /\ calls[c].pc = "insert_metadata"
  /\ \E r \in { insert_metadata(DB, MetadataOf(calls[c])) } :
       Write(c, r, Done(calls[c], Ok(calls[c].trk_id)))

\* The caller has what the call returned and may call again.
Return(c) ==
  /\ calls[c].pc = "done"
  /\ Read(c, Idle)

NextRace ==
  \E c \in Callers :
    \/ CallInsertMusicDir(c)
    \/ CallInsertArtist(c)
    \/ CallInsertTrack(c)
    \/ LookupTrack(c)
    \/ InsertOrIgnore(c)
    \/ ReRead(c)
    \/ IsValidTrack(c)
    \/ ReadTags(c)
    \/ LookupArtist(c)
    \/ InsertArtistStmt(c)
    \/ ReReadArtist(c)
    \/ IsValidArtist(c)
    \/ LookupAlbum(c)
    \/ InsertAlbumStmt(c)
    \/ ReReadAlbum(c)
    \/ ArtExists(c)
    \/ ReadArt(c)
    \/ WriteArt(c)
    \/ InsertMetadata(c)
    \/ Return(c)

Next ==
  \/ InsertMusicDir
  \/ InsertArtist
  \/ InsertAlbum
  \/ RemoveMusicDir
  \/ ScanDirectory
  \/ BuildMusicLibrary

Spec == Init /\ [][Next]_vars

\* The same program over a store whose statements can fail.
NextFault == Next \/ RemoveMusicDirFault

SpecFault == Init /\ [][NextFault]_vars

\* Directories and single tracks inserted and removed one call at a time.
NextTracks ==
  \/ InsertMusicDir
  \/ InsertTrack
  \/ RemoveTrack
  \/ RemoveMusicDir

SpecTracks == Init /\ [][NextTracks]_vars

\* Rebuilds of a library of nested directories while /a/s is deleted and
\* made again and a music file arrives in /a.
NextRebuild ==
  \/ InsertMusicDir
  \/ ScanDirectory
  \/ BuildMusicLibrary
  \/ DeleteTree
  \/ MakeDir
  \/ CreateTopFile

SpecRebuild == Init /\ [][NextRebuild]_vars

\* Two callers inside insert operations at the same time.
SpecRace == Init /\ [][NextRace]_vars

\* The removals stopped after any of their statements, beside the scans
\* and album insertions that fill every table: the states between the statements of remove_track and
\* remove_music_dir are states of this specification.
NextSteps ==
  \/ ScanDirectory
  \/ InsertAlbum
  \/ RemoveTrack
  \/ RemoveTrackFault
  \/ RemoveMusicDir
  \/ RemoveMusicDirFault

SpecSteps == Init /\ [][NextSteps]_vars

\* Scans, rebuilds and removals while the directory /a/s is deleted from
\* disk and made again.
NextFs ==
  \/ ScanDirectory
  \/ BuildMusicLibrary
  \/ RemoveMusicDir
  \/ DeleteTree
  \/ MakeDir

\* Scans, rebuilds and removals while music files are deleted from disk and
\* copied in.
NextRescan ==
  \/ ScanDirectory
  \/ BuildMusicLibrary
  \/ RemoveMusicDir
  \/ RemoveTrack
  \/ DeleteFile
  \/ CreateFile

SpecRescan == Init /\ [][NextRescan]_vars

SpecFs == Init /\ [][NextFs]_vars

----------------------------------------------------------------------------
(* Properties. A property about what a call returns applies the call to    *)
(* the reachable state it quantifies over.                                  *)

FileA == <<"a", "s", "a", ".flac">>
FileB == <<"a", "s", "b", ".mp3">>

ExistingDirArgs == { p \in PathArgs : exists(p) /\ is_directory(p) }

RowCounts(db) ==
  <<Cardinality(db.tracks), Cardinality(db.artists), Cardinality(db.albums),
    Cardinality(db.meta)>>

\* C1: registering a directory twice, by the same path or by two paths with
\* the same canonical path, returns the same present id both times and
\* leaves exactly one t_music_dirs row for the canonical path.
C1_RegisterTwice ==
  \A p \in ExistingDirArgs, q \in ExistingDirArgs :
    canonical(p) = canonical(q) =>
      LET r1 == insert_music_dir(DB, p)
          r2 == insert_music_dir(r1.db, q)
      IN /\ r1.ret.kind = "ok" /\ HasValue(r1.ret.val)
         /\ r2.ret = r1.ret
         /\ Cardinality({ row \in r2.db.dirs : row.path = canonical(p) }) = 1

\* /a/s is registered, and registering it again through the link /la
\* returns the id of its row.
C1_Witness ==
  \E row \in t_music_dirs :
    /\ row.path = LinkTarget
    /\ insert_music_dir(DB, LinkName) = Ret(DB, Ok(Some(row.id)))

\* C2: a second scan of a directory leaves as many Track, Artist, Album and
\* TrackMetadata rows as the first scan left, whatever the tags of the files.
C2_RescanSameCounts ==
  \A p \in ExistingDirArgs, order \in ListingOrders :
    LET r1 == scan_directory(DB, p, order)
        r2 == scan_directory(r1.db, p, order)
    IN RowCounts(r2.db) = RowCounts(r1.db)

\* C3: insert_album with an artist id that no Artist row has returns absent
\* and changes nothing.
C3_AlbumOfUnknownArtist ==
  \A name \in AlbumNames, i \in IdArgs :
    ~is_valid_artist_id(DB, i) => insert_album(DB, name, Some(i)) = Ret(DB, Ok(None))

\* An artist and one of its albums exist, and insert_album names the id
\* after the artist's, which no artist has.
C3_Witness ==
  \E ar \in t_artists :
    /\ \E al \in t_albums : al.artist_id = Some(ar.id)
    /\ ~is_valid_artist_id(DB, ar.id + 1)
    /\ insert_album(DB, "Y", Some(ar.id + 1)).ret = Ok(None)

\* C4: at most one Album row for each pair (name, artist id), the absent
\* artist id included.
C4_AlbumKeyUnique ==
  \A r1 \in t_albums, r2 \in t_albums :
    (r1.name = r2.name /\ r1.artist_id = r2.artist_id) => r1 = r2

\* C5: insert_album with an absent artist or the id of an existing Artist
\* returns a present id, and the same call again returns that id and adds
\* no row.
C5_AlbumInsertOrGet ==
  \A name \in AlbumNames, artist_id \in OptIdArgs :
    (~HasValue(artist_id) \/ is_valid_artist_id(DB, Value(artist_id))) =>
      LET r1 == insert_album(DB, name, artist_id)
          r2 == insert_album(r1.db, name, artist_id)
      IN /\ r1.ret.kind = "ok" /\ HasValue(r1.ret.val)
         /\ r2.ret = r1.ret
         /\ r2.db.albums = r1.db.albums

\* C6: remove_music_dir on a registered directory returns true and removes
\* the Track rows the directory owns, the TrackMetadata rows of those tracks
\* and the MusicDirectory row, and nothing else.
C6_RemoveCascade ==
  \A p \in ExistingDirArgs :
    LET dir_id == get_music_dir_id(DB, canonical(p))
        owned == { t \in t_tracks : t.parent_dir_id = Value(dir_id) }
        r == remove_music_dir(DB, p, 0)
    IN HasValue(dir_id) =>
         /\ r.ret = Ok(TRUE)
         /\ r.db.tracks = t_tracks \ owned
         /\ r.db.meta = { m \in t_tracks_metadata : \A t \in owned : m.track_id # t.id }
         /\ r.db.dirs = { d \in t_music_dirs : d.id # Value(dir_id) }
         /\ r.db.artists = t_artists
         /\ r.db.albums = t_albums

\* A directory and tracks have been removed, and a track of the other
\* directory is left with its TrackMetadata row, beside artists and albums.
C6_Witness ==
  /\ Cardinality(t_music_dirs) < sqlite_sequence["dirs"]
  /\ Cardinality(t_tracks) < sqlite_sequence["tracks"]
  /\ \E t \in t_tracks : \E m \in t_tracks_metadata : m.track_id = t.id
  /\ t_artists # {}
  /\ t_albums # {}

\* C7: a step that deletes a TrackMetadata row or a Track row also deletes
\* the MusicDirectory row: no part of the cascade stays applied without the
\* rest, also when one of the statements fails.
C7_RemoveAtomic ==
  [][(t_tracks_metadata \ t_tracks_metadata' # {} \/ t_tracks \ t_tracks' # {})
       => t_music_dirs \ t_music_dirs' # {}]_vars

\* C8: scan_directory on an existing directory returns without an exception
\* and leaves a Track row for every supported regular file under it, and no
\* TrackMetadata row for a newly indexed file that has no tags.
C8_ScanCompletes ==
  \A p \in ExistingDirArgs, order \in ListingOrders :
    LET r == scan_directory(DB, p, order)
    IN /\ r.ret.kind = "ok"
       /\ \A f \in fs_files :
            (IsPrefix(canonical(p), f) /\ is_supported_file_type(f)) =>
              /\ HasValue(get_track_id(r.db, f))
              /\ (~HasValue(get_track_id(DB, f))
                    /\ (~HasValue(tags[f]) \/ isEmpty(Value(tags[f]))))
                   => \A m \in r.db.meta : m.track_id # Value(get_track_id(r.db, f))

\* The scenario of C9: nothing is catalogued, a.flac carries title "Song",
\* artist "X", album "Y", track 3 and b.mp3 carries no tags.
C9_Scenario ==
  /\ t_music_dirs = {} /\ t_artists = {} /\ t_albums = {}
  /\ t_tracks = {} /\ t_tracks_metadata = {}
  /\ tags[FileA] = FullTags
  /\ tags[FileB] = NoTags

\* What both readings of C9 agree on: one directory, the artist X, the
\* album Y of X, two tracks, and the metadata row of a.flac.
C9_Common(r) ==
  /\ r.ret.kind = "ok" /\ HasValue(r.ret.val)
  /\ { d.path : d \in r.db.dirs } = { <<"a", "s">> }
  /\ { ar.name : ar \in r.db.artists } = { "X" }
  /\ Cardinality(r.db.albums) = 1
  /\ \A al \in r.db.albums :
       al.name = "Y" /\ al.artist_id = get_artist_id(r.db, "X")
  /\ { t.file_path : t \in r.db.tracks } = { FileA, FileB }
  /\ Cardinality(r.db.tracks) = 2
  /\ \E m \in r.db.meta :
       m = TrackMetadata(Value(get_track_id(r.db, FileA)), "Song", Some(3),
                         get_artist_id(r.db, "X"),
                         get_album_id(r.db, "Y", get_artist_id(r.db, "X")))

\* C9 as claimed: the scan yields two TrackMetadata rows, the second with
\* title "b" and absent track, artist and album.
C9_TwoMetadataRows ==
  C9_Scenario =>
    \A order \in ListingOrders :
      LET r == scan_directory(DB, <<"a", "s">>, order)
      IN /\ C9_Common(r)
         /\ Cardinality(r.db.meta) = 2
         /\ \E m \in r.db.meta :
              m = TrackMetadata(Value(get_track_id(r.db, FileB)), "b", None, None, None)

\* C9 as amended: the scan yields one TrackMetadata row, that of a.flac;
\* b.mp3 has a Track row and no TrackMetadata row.
C9_OneMetadataRow ==
  C9_Scenario =>
    \A order \in ListingOrders :
      LET r == scan_directory(DB, <<"a", "s">>, order)
      IN /\ C9_Common(r)
         /\ Cardinality(r.db.meta) = 1
         /\ \A m \in r.db.meta : m.track_id # Value(get_track_id(r.db, FileB))

\* The scenario of C9 after the scan of /a/s: both files have a Track row,
\* only a.flac has a TrackMetadata row.
C9_Witness ==
  /\ tags[FileA] = FullTags
  /\ tags[FileB] = NoTags
  /\ { d.path : d \in t_music_dirs } = { <<"a", "s">> }
  /\ { t.file_path : t \in t_tracks } = { FileA, FileB }
  /\ \E m \in t_tracks_metadata : m.title = "Song"
  /\ Cardinality(t_tracks_metadata) = 1

\* C10: every indexed file whose tag set is not empty has a TrackMetadata
\* row; its album id (artist id) is absent when the album (artist) field is
\* empty and is the id of the Album (Artist) row of that name otherwise.
C10_AlbumAndArtistIds ==
  \A t \in t_tracks :
    LET fref == tags[t.file_path]
    IN (HasValue(fref) /\ ~isEmpty(Value(fref))) =>
         \E m \in t_tracks_metadata :
           /\ m.track_id = t.id
           /\ IF Value(fref).album = ""
              THEN m.album_id = None
              ELSE /\ HasValue(m.album_id)
                   /\ \E al \in t_albums :
                        al.id = Value(m.album_id) /\ al.name = Value(fref).album
           /\ IF Value(fref).artist = ""
              THEN m.artist_id = None
              ELSE /\ HasValue(m.artist_id)
                   /\ \E ar \in t_artists :
                        ar.id = Value(m.artist_id) /\ ar.name = Value(fref).artist

\* C11: every indexed file whose tag set is not empty has a TrackMetadata
\* row; its title is the title tag, or the file name without extension when
\* there is no title tag, and its track number is the track tag, or absent
\* when the track tag is 0.
C11_TitleAndTrackFallback ==
  \A t \in t_tracks :
    LET fref == tags[t.file_path]
    IN (HasValue(fref) /\ ~isEmpty(Value(fref))) =>
         \E m \in t_tracks_metadata :
           /\ m.track_id = t.id
           /\ m.title = IF Value(fref).title # "" THEN Value(fref).title
                        ELSE FilenameStem(t.file_path)
           /\ m.track_num = IF Value(fref).track = 0 THEN None
                            ELSE Some(Value(fref).track)

\* The part of C11 the code does keep: a TrackMetadata row that is stored
\* carries the fallback title and track number of its file.
C11_StoredRowsFallBack ==
  \A m \in t_tracks_metadata :
    \A t \in t_tracks :
      t.id = m.track_id =>
        LET fref == tags[t.file_path]
        IN /\ HasValue(fref)
           /\ m.title = IF Value(fref).title # "" THEN Value(fref).title
                        ELSE FilenameStem(t.file_path)
           /\ m.track_num = IF Value(fref).track = 0 THEN None
                            ELSE Some(Value(fref).track)

\* C12: insert_track with a parent directory id that is absent or not
\* registered, or with a path that does not exist or is not a regular file,
\* returns absent without an exception and changes nothing.
C12_InsertTrackPreconditions ==
  \A file_path \in FileArgs, parent_dir_id \in OptIdArgs :
    (\/ ~HasValue(parent_dir_id)
     \/ ~is_valid_music_dir_id(DB, Value(parent_dir_id))
     \/ ~exists(file_path)
     \/ ~is_regular_file(file_path))
      => insert_track(DB, file_path, parent_dir_id) = Ret(DB, Ok(None))

\* The part of C12 the code does keep: the preconditions other than the
\* existence of the path.
C12_ExistingPathPreconditions ==
  \A file_path \in FileArgs, parent_dir_id \in OptIdArgs :
    (\/ ~HasValue(parent_dir_id)
     \/ ~is_valid_music_dir_id(DB, Value(parent_dir_id))
     \/ exists(file_path) /\ ~is_regular_file(file_path))
      => insert_track(DB, file_path, parent_dir_id) = Ret(DB, Ok(None))

\* C13: scan_directory on a path that does not exist or is not a directory
\* returns absent without an exception and changes nothing.
C13_ScanOfMissingPath ==
  \A path \in PathArgs, order \in ListingOrders :
    (~exists(path) \/ ~is_directory(path))
      => scan_directory(DB, path, order) = Ret(DB, Ok(None))

\* The part of C13 the code does keep: a path that exists and is not a
\* directory.
C13_ScanOfRegularFile ==
  \A path \in PathArgs, order \in ListingOrders :
    (exists(path) /\ ~is_directory(path))
      => scan_directory(DB, path, order) = Ret(DB, Ok(None))

\* C14: remove_music_dir returns false and changes nothing when the path
\* does not exist on disk, is not a directory, or its canonical path is not
\* registered.
C14_RemoveNeedsDiskAndRow ==
  \A path \in PathArgs :
    (\/ ~exists(path)
     \/ ~is_directory(path)
     \/ ~HasValue(get_music_dir_id(DB, canonical(path))))
      => remove_music_dir(DB, path, 0) = Ret(DB, Ok(FALSE))

\* A registered directory that owns a track is gone from the disk, and
\* remove_music_dir of its path returns false and leaves its rows.
C14_Witness ==
  \E row \in t_music_dirs :
    /\ row.path \notin fs_dirs
    /\ TracksOfDir(DB, row.id) # {}
    /\ remove_music_dir(DB, row.path, 0) = Ret(DB, Ok(FALSE))

\* C15: remove_track returns true for every id, leaves no Track row and no
\* TrackMetadata row with that id, and leaves every other row of every table
\* as it was.
C15_RemoveTrackFrame ==
  \A track_id \in IdArgs :
    LET r == remove_track(DB, track_id)
    IN /\ r.ret = Ok(TRUE)
       /\ r.db.tracks = { t \in t_tracks : t.id # track_id }
       /\ r.db.meta = { m \in t_tracks_metadata : m.track_id # track_id }
       /\ r.db.dirs = t_music_dirs
       /\ r.db.artists = t_artists
       /\ r.db.albums = t_albums

\* A track has been removed by remove_track (every directory ever
\* registered is still there), a track with its TrackMetadata row is left
\* beside an artist and an album, and there is an id that no track has.
C15_Witness ==
  /\ Cardinality(t_tracks) < sqlite_sequence["tracks"]
  /\ Cardinality(t_music_dirs) = sqlite_sequence["dirs"]
  /\ \E t \in t_tracks : \E m \in t_tracks_metadata : m.track_id = t.id
  /\ t_artists # {}
  /\ t_albums # {}
  /\ \E i \in IdArgs : ~is_valid_track_id(DB, i)

\* C16: in every state, the states between the DELETE statements of
\* remove_track and remove_music_dir included, every TrackMetadata row has
\* its Track row, every Track row has its MusicDirectory row, and every
\* artist id and album id stored in an Album or TrackMetadata row is the id
\* of an existing row.
C16_ForeignKeys ==
  /\ \A m \in t_tracks_metadata : \E t \in t_tracks : t.id = m.track_id
  /\ \A t \in t_tracks : \E d \in t_music_dirs : d.id = t.parent_dir_id
  /\ \A al \in t_albums :
       HasValue(al.artist_id) => \E ar \in t_artists : ar.id = Value(al.artist_id)
  /\ \A m \in t_tracks_metadata :
       /\ HasValue(m.artist_id) => \E ar \in t_artists : ar.id = Value(m.artist_id)
       /\ HasValue(m.album_id) => \E al \in t_albums : al.id = Value(m.album_id)

\* A removal has stopped between its statements: the metadata row of a
\* fully tagged file is deleted and its Track row is still there, beside
\* another track that has its metadata row with an artist and an album.
C16_Witness ==
  /\ \E t \in t_tracks :
       /\ tags[t.file_path] = FullTags
       /\ \A m \in t_tracks_metadata : m.track_id # t.id
  /\ \E m \in t_tracks_metadata : HasValue(m.artist_id) /\ HasValue(m.album_id)
  /\ \E al \in t_albums : HasValue(al.artist_id)

\* What a scan owes the files on disk below directory d: a Track row each.
AllIndexedBelow(db, d) ==
  \A f \in fs_files :
    (IsPrefix(d, f) /\ is_supported_file_type(f)) => HasValue(get_track_id(db, f))

\* A file that was indexed has been deleted from disk.
StaleTrack == \E t \in t_tracks : t.file_path \notin fs_files

\* C17, the scans: once an indexed file is deleted from disk,
\* scan_directory and build_music_library leave every Track and
\* TrackMetadata row in place, those of the deleted file included, and add a
\* Track row for every file that is new.
C17_ScansOnlyAdd ==
  StaleTrack =>
  /\ \A p \in ExistingDirArgs, order \in ListingOrders :
       LET r == scan_directory(DB, p, order)
       IN /\ t_tracks \subseteq r.db.tracks
          /\ t_tracks_metadata \subseteq r.db.meta
          /\ AllIndexedBelow(r.db, canonical(p))
  /\ \A order \in ListingOrders :
       LET r == build_music_library(DB, order)
       IN /\ t_tracks \subseteq r.db.tracks
          /\ t_tracks_metadata \subseteq r.db.meta
          /\ \A d \in t_music_dirs : d.path \in fs_dirs => AllIndexedBelow(r.db, d.path)

\* C17, the removals: a Track row leaves the table only together with the
\* MusicDirectory row that owns it (remove_music_dir) or alone
\* (remove_track), and a TrackMetadata row only together with its Track row.
C17_RowsLeaveByRemoval ==
  /\ \A t \in t_tracks \ t_tracks' :
       \/ \E d \in t_music_dirs \ t_music_dirs' : d.id = t.parent_dir_id
       \/ t_tracks' = t_tracks \ { t } /\ t_music_dirs' = t_music_dirs
  /\ \A m \in t_tracks_metadata \ t_tracks_metadata' :
       \E t \in t_tracks \ t_tracks' : t.id = m.track_id

\* The removals of C17 as a property of every step.
C17_OnlyRemovalsDelete == [][C17_RowsLeaveByRemoval]_vars

\* The part of C17_ScansOnlyAdd the code does keep: no scan deletes a row.
C17_ScansDeleteNothing ==
  /\ \A p \in PathArgs, order \in ListingOrders :
       LET r == scan_directory(DB, p, order)
       IN t_tracks \subseteq r.db.tracks /\ t_tracks_metadata \subseteq r.db.meta
  /\ \A order \in ListingOrders :
       LET r == build_music_library(DB, order)
       IN t_tracks \subseteq r.db.tracks /\ t_tracks_metadata \subseteq r.db.meta

\* C17: re-scanning is additive only.
C17_RescanAdditive == []C17_ScansOnlyAdd /\ C17_OnlyRemovalsDelete

\* C18, the count: no art file has been written more than once, and the
\* files that exist are those that were written.
C18_AtMostOnce ==
  \A id \in DOMAIN art_writes :
    /\ art_writes[id] <= 1
    /\ id \in art_files <=> art_writes[id] = 1

\* C18, the steps: no step writes an art file that exists or removes it.
C18_NoRewrite ==
  [][\A id \in art_files : id \in art_files' /\ art_writes'[id] = art_writes[id]]_vars

\* C18, the second scan: a scan of a directory that has just been scanned
\* performs no art write.
C18_SecondScanWritesNothing ==
  \A p \in ExistingDirArgs, order \in ListingOrders :
    LET r1 == scan_directory(DB, p, order)
        r2 == scan_directory(r1.db, p, order)
    IN r2.db.writes = r1.db.writes /\ r2.db.art = r1.db.art

\* C18: the cover-art file of an album id is written at most once, is never
\* rewritten once it exists, and no second scan writes art.
C18_ArtWriteOnce ==
  [](C18_AtMostOnce /\ C18_SecondScanWritesNothing) /\ C18_NoRewrite

\* The part of C18 the code does keep: written at most once, never again.
C18_WrittenOnceNeverAgain == []C18_AtMostOnce /\ C18_NoRewrite

\* C19, the states: no row of a table has an id above the number of ids the
\* table has issued.
C19_IdsBelowMark ==
  /\ \A r \in t_music_dirs : r.id \in 1..sqlite_sequence["dirs"]
  /\ \A r \in t_tracks : r.id \in 1..sqlite_sequence["tracks"]
  /\ \A r \in t_artists : r.id \in 1..sqlite_sequence["artists"]
  /\ \A r \in t_albums : r.id \in 1..sqlite_sequence["albums"]

\* C19, the steps: the number of ids issued never goes down, a new
\* MusicDirectory or Track row takes an id above every id issued before,
\* and an id that was issued and removed is not valid afterwards.
C19_NewIdsAboveMark ==
  /\ \A tbl \in Tables : sqlite_sequence'[tbl] >= sqlite_sequence[tbl]
  /\ \A r \in t_music_dirs' \ t_music_dirs : r.id > sqlite_sequence["dirs"]
  /\ \A r \in t_tracks' \ t_tracks : r.id > sqlite_sequence["tracks"]
  /\ \A i \in 1..sqlite_sequence["dirs"] :
       (\A r \in t_music_dirs : r.id # i) => \A r \in t_music_dirs' : r.id # i
  /\ \A i \in 1..sqlite_sequence["tracks"] :
       (\A r \in t_tracks : r.id # i) => \A r \in t_tracks' : r.id # i

\* C19: ids are issued monotonically and never reused.
C19_IdsNeverReused == []C19_IdsBelowMark /\ [][C19_NewIdsAboveMark]_vars

\* A directory and a track hold ids above ids that were removed, and the
\* directory removed and registered again by the same path takes the next
\* id, above every id issued so far.
C19_Witness ==
  /\ \E d \in t_music_dirs :
       /\ \E i \in 1..(d.id - 1) : ~is_valid_music_dir_id(DB, i)
       /\ LET r1 == remove_music_dir(DB, d.path, 0)
              r2 == insert_music_dir(r1.db, d.path)
          IN /\ r1.ret = Ok(TRUE)
             /\ r2.ret = Ok(Some(sqlite_sequence["dirs"] + 1))
  /\ \E t \in t_tracks : \E i \in 1..(t.id - 1) : ~is_valid_track_id(DB, i)

\* What C20 expects of a lookup r of track id: the TrackMetadata row of that
\* track when there is one, absent when there is none, nothing changed.
C20_Expected(r, id) ==
  /\ r.db = DB
  /\ r.ret.kind = "ok"
  /\ \A m \in t_tracks_metadata : m.track_id = id => r.ret.val = Some(m)
  /\ (\A m \in t_tracks_metadata : m.track_id # id) => r.ret.val = None

\* C20: get_track_metadata(id) returns the TrackMetadata row of track id
\* when it exists and absent when it does not.
C20_GetTrackMetadata ==
  \A id \in IdArgs : C20_Expected(get_track_metadata(DB, id), id)

\* The same query over the column the table does have returns what C20
\* expects.
C20_QueryByTrackId ==
  \A id \in IdArgs : C20_Expected(get_track_metadata_by_track_id(DB, id), id)

-----------------------------------------------------------------------------
(* C21: racing inserts of the same natural key *)

\* The rows that hold the natural key of an insert operation.
RowsOfKey(op, key) ==
  IF op = "dir" THEN { r.id : r \in { d \in t_music_dirs : d.path = key } }
  ELSE IF op = "artist" THEN { r.id : r \in { a \in t_artists : a.name = key } }
  ELSE { r.id : r \in { t \in t_tracks : t.file_path = key } }

\* Callers c1 and c2 have both come to the end of the same insert operation
\* for the same natural key.
SameInsertDone(c1, c2) ==
  /\ c1 # c2
  /\ calls[c1].pc = "done" /\ calls[c2].pc = "done"
  /\ calls[c1].op = calls[c2].op
  /\ HasValue(calls[c1].key)
  /\ calls[c1].key = calls[c2].key

\* C21: two invocations of the same insert operation with the same natural
\* key, interleaved statement by statement, leave exactly one row for that
\* key and both return the same id.
C21_RacingInserts ==
  \A c1, c2 \in Callers :
    SameInsertDone(c1, c2) =>
      /\ Cardinality(RowsOfKey(calls[c1].op, Value(calls[c1].key))) = 1
      /\ calls[c1].ret.kind = "ok" /\ calls[c2].ret.kind = "ok"
      /\ HasValue(calls[c1].ret.val)
      /\ calls[c1].ret = calls[c2].ret

\* What holds of the racing inserts: one row for the key whatever the
\* interleaving, insert_music_dir and insert_artist always return, and the
\* invocations that return all return the id of that row.
C21_OneRowAndReturnedIdsAgree ==
  \A c1, c2 \in Callers :
    SameInsertDone(c1, c2) =>
      /\ Cardinality(RowsOfKey(calls[c1].op, Value(calls[c1].key))) = 1
      /\ calls[c1].op \in { "dir", "artist" } => calls[c1].ret.kind = "ok"
      /\ calls[c1].ret.kind = "ok" =>
           /\ HasValue(calls[c1].ret.val)
           /\ Value(calls[c1].ret.val) \in RowsOfKey(calls[c1].op, Value(calls[c1].key))

\* Both callers found no row in their first lookup and have both executed
\* their INSERT OR IGNORE before either read the id back.
C21_BothInserted ==
  /\ calls[1].pc = "reread" /\ calls[2].pc = "reread"
  /\ calls[1].op = calls[2].op /\ calls[1].key = calls[2].key
  /\ Cardinality(RowsOfKey(calls[1].op, Value(calls[1].key))) = 1

-----------------------------------------------------------------------------
(* C22: the rebuild when a registered directory is gone from disk *)

\* A registered directory is gone from disk.
MissingMusicDir == \E d \in t_music_dirs : d.path \notin fs_dirs

\* C22: when a registered directory no longer exists on disk,
\* build_music_library still scans every registered directory that does
\* exist, so that each supported file below one of them has a Track row
\* after the rebuild.
C22_RebuildSkipsOnlyMissing ==
  MissingMusicDir =>
    \A order \in ListingOrders :
      LET r == build_music_library(DB, order)
      IN \A d \in t_music_dirs : d.path \in fs_dirs => AllIndexedBelow(r.db, d.path)

\* What the rebuild does keep: when every registered directory exists on
\* disk and no scan ends in an exception, each supported file below a
\* registered directory has a Track row after the rebuild.
C22_RebuildOfExistingDirs ==
  ~MissingMusicDir =>
    \A order \in ListingOrders :
      LET r == build_music_library(DB, order)
      IN ~Threw(r) => \A d \in t_music_dirs : AllIndexedBelow(r.db, d.path)

\* And what it does when a directory is missing: the exception of
\* fs::canonical leaves build_music_library, with the scans of the
\* directories registered before the missing one done.
C22_RebuildStopsAtMissing ==
  MissingMusicDir =>
    \A order \in ListingOrders :
      LET r == build_music_library(DB, order)
      IN /\ Threw(r)
         /\ r.ret.val = "filesystem_error" =>
              \A d, m \in t_music_dirs :
                (/\ m.path \notin fs_dirs
                 /\ \A x \in t_music_dirs : x.path \notin fs_dirs => m.id <= x.id
                 /\ d.id < m.id)
                  => AllIndexedBelow(r.db, d.path)

-----------------------------------------------------------------------------
(* C23: the owner of a track when registered directories overlap *)

\* Registered directories d1 and d2 overlap and the file of track t lies
\* under both.
UnderBoth(d1, d2, t) ==
  /\ d1 # d2
  /\ IsPrefix(d1.path, d2.path) \/ IsPrefix(d2.path, d1.path)
  /\ IsPrefix(d1.path, t.file_path)
  /\ IsPrefix(d2.path, t.file_path)

\* No step changes the path or the owner of a Track row that it keeps.
C23_OwnerKept ==
  \A t \in t_tracks : \A u \in t_tracks' : u.id = t.id => u = t

\* The Track rows a scan adds are owned by the directory that was scanned,
\* and the rows that were there keep their owner.
C23_ScanOwnsWhatItInserts ==
  \A p \in ExistingDirArgs, order \in ListingOrders :
    LET r == scan_directory(DB, p, order)
    IN /\ t_tracks \subseteq r.db.tracks
       /\ \A u \in r.db.tracks \ t_tracks :
            get_music_dir_id(r.db, canonical(p)) = Some(u.parent_dir_id)

\* Track t is owned by d1, its file lies under the other registered
\* directory d2 as well: a scan of d2 leaves the row of t and its owner,
\* with one row for the file, and the removal of d2 leaves the Track row
\* and the TrackMetadata row of t.
C23_OtherRootLeavesTrack ==
  \A d1, d2 \in t_music_dirs : \A t \in t_tracks :
    (t.parent_dir_id = d1.id /\ UnderBoth(d1, d2, t)) =>
      /\ \A order \in ListingOrders :
           LET r == scan_directory(DB, d2.path, order)
           IN /\ t \in r.db.tracks
              /\ \A u \in r.db.tracks : u.file_path = t.file_path => u = t
              /\ \A m \in t_tracks_metadata : m.track_id = t.id => m \in r.db.meta
      /\ LET r == remove_music_dir(DB, d2.path, 0)
         IN /\ r.ret = Ok(TRUE)
            /\ t \in r.db.tracks
            /\ d1 \in r.db.dirs
            /\ \A m \in t_tracks_metadata : m.track_id = t.id => m \in r.db.meta

\* C23: the MusicDirectory that owns a Track never changes after the Track
\* row is created. When two registered roots overlap, a file under both is
\* owned by the root whose scan inserted it first, a later scan of the other
\* root leaves that owner, and the removal of the other root deletes
\* neither the Track row nor its TrackMetadata row.
C23_OwnerNeverChanges ==
  /\ [](C23_ScanOwnsWhatItInserts /\ C23_OtherRootLeavesTrack)
  /\ [][C23_OwnerKept]_vars

\* /a and /a/s are both registered and each owns a track whose file lies
\* under both: the scan of the second root found the first track there and
\* left it to its owner. One of the tracks has a TrackMetadata row, and the
\* removal of the root that does not own it returns true and leaves the
\* Track row and the TrackMetadata row.
C23_Witness ==
  \E d1, d2 \in t_music_dirs : \E t1, t2 \in t_tracks :
    /\ UnderBoth(d1, d2, t1) /\ UnderBoth(d1, d2, t2)
    /\ t1.parent_dir_id = d1.id
    /\ t2.parent_dir_id = d2.id
    /\ \E m \in t_tracks_metadata :
         /\ m.track_id = t1.id
         /\ LET r == remove_music_dir(DB, d2.path, 0)
            IN /\ r.ret = Ok(TRUE)
               /\ t1 \in r.db.tracks
               /\ t2 \notin r.db.tracks
               /\ m \in r.db.meta

====
